---- MODULE Spec2Model ----
(***************************************************************************)
(* Model of src/stack/integer/mod.rs: the IntegerData value (NaN or a      *)
(* signed big integer of at most 257 bits), the generic unary/binary       *)
(* operation framework with its Checked/Quiet behaviour, the bit-width     *)
(* primitives and the in-place two's complement of a u32 digit buffer.     *)
(*                                                                         *)
(* A big integer (Int = num::BigInt) is a record [sign, mag]: sign is one  *)
(* of "Minus", "NoSign", "Plus" and mag is the magnitude (<<>> for zero).   *)
(***************************************************************************)
EXTENDS Integers, Sequences, FiniteSets

VARIABLES
    slot,      \* the caller-owned mutable slots, each holding an IntegerData
    call,      \* the last operation invoked and its arguments
    ret,       \* what the last operation returned (Ok / Err / panic)
    trace,     \* which of the closures the last operation invoked
    value,     \* the raw Int handed to utils::bitsize / utils::check_overflow
    out,       \* the result of the last bit-width primitive applied to value
    digits,    \* the u32 digit buffer handed to utils::twos_complement
    digits0,   \* the buffer as it was first handed in
    carry,     \* the carry flag when the last twos_complement returned
    applied    \* how many times twos_complement ran on the buffer

vars == <<slot, call, ret, trace, value, out, digits, digits0, carry, applied>>

(***************************************************************************)
(* Bounds of the model.                                                    *)
(***************************************************************************)
\* the small integers handed to the bit-width primitives are -BitsRange .. BitsRange
BitsRange == 300
\* number of mutable slots
NSlots == 2
\* longest digit buffer handed to twos_complement
MaxDigits == 3
\* how many times twos_complement is applied to one buffer
MaxApply == 2

(***************************************************************************)
(* num::BigInt, as far as this file uses it. A magnitude is a sequence of  *)
(* digits in base 2^16, least significant first, the last one not 0.       *)
(***************************************************************************)
Base == 2^16

\* drop the leading (most significant) zero digits
RECURSIVE Normalize(_)
Normalize(s) ==
    IF s = <<>> THEN s
    ELSE IF s[Len(s)] # 0 THEN s
    ELSE Normalize(SubSeq(s, 1, Len(s) - 1))

MkInt(neg, m) ==
    IF m = <<>> THEN [sign |-> "NoSign", mag |-> <<>>]
    ELSE [sign |-> IF neg THEN "Minus" ELSE "Plus", mag |-> m]

\* the bit length of a natural number
RECURSIVE BitLen(_)
BitLen(n) == IF n = 0 THEN 0 ELSE 1 + BitLen(n \div 2)

\* the magnitude of a small natural number
RECURSIVE NatMag(_)
NatMag(n) == IF n = 0 THEN <<>> ELSE <<n % Base>> \o NatMag(n \div Base)

\* Int::from of a small machine integer
IntOf(n) == MkInt(n < 0, NatMag(IF n < 0 THEN 0 - n ELSE n))

\* Int::zero(), Int::one(), Int::from_biguint(Sign::Minus, BigUint::one())
Int_zero == MkInt(FALSE, <<>>)
Int_one == MkInt(FALSE, <<1>>)
Int_minus_one == MkInt(TRUE, <<1>>)

\* m + 1: the carry runs through the digits that are Base - 1
RECURSIVE MagAddOneAt(_, _)
MagAddOneAt(m, i) ==
    IF i > Len(m) THEN Append(m, 1)
    ELSE IF m[i] = Base - 1 THEN MagAddOneAt([m EXCEPT ![i] = 0], i + 1)
    ELSE [m EXCEPT ![i] = m[i] + 1]
MagAdd1(m) == MagAddOneAt(m, 1)

\* m - 1 for m # 0: the borrow runs through the digits that are 0
RECURSIVE MagSubOneAt(_, _)
MagSubOneAt(m, i) ==
    IF m[i] = 0 THEN MagSubOneAt([m EXCEPT ![i] = Base - 1], i + 1)
    ELSE Normalize([m EXCEPT ![i] = m[i] - 1])
MagSub1(m) == MagSubOneAt(m, 1)

\* 2^k and 2^k - 1 as magnitudes
RECURSIVE Zeros(_)
Zeros(n) == IF n = 0 THEN <<>> ELSE Append(Zeros(n - 1), 0)
MagPow2(k) == Append(Zeros(k \div 16), 2^(k % 16))
MagOnes(k) == MagSub1(MagPow2(k))

\* the bitwise and of two digits, and of two magnitudes
RECURSIVE DigitAnd(_, _)
DigitAnd(a, b) ==
    IF a = 0 \/ b = 0 THEN 0
    ELSE (a % 2) * (b % 2) + 2 * DigitAnd(a \div 2, b \div 2)
RECURSIVE MagAndTo(_, _, _)
MagAndTo(a, b, n) ==
    IF n = 0 THEN <<>> ELSE Append(MagAndTo(a, b, n - 1), DigitAnd(a[n], b[n]))
MagAnd(a, b) == Normalize(MagAndTo(a, b, IF Len(a) < Len(b) THEN Len(a) ELSE Len(b)))

\* the order of two magnitudes of the same length, from digit i down
RECURSIVE MagCmpAt(_, _, _)
MagCmpAt(a, b, i) ==
    IF i = 0 THEN "Equal"
    ELSE IF a[i] < b[i] THEN "Less"
    ELSE IF a[i] > b[i] THEN "Greater"
    ELSE MagCmpAt(a, b, i - 1)
MagCmp(a, b) ==
    IF Len(a) < Len(b) THEN "Less"
    ELSE IF Len(a) > Len(b) THEN "Greater"
    ELSE MagCmpAt(a, b, Len(a))

Int_is_zero(x) == x.sign = "NoSign"
Int_is_positive(x) == x.sign = "Plus"
\* BigInt::bits: the bit length of the magnitude
Int_bits(x) ==
    IF x.mag = <<>> THEN 0
    ELSE 16 * (Len(x.mag) - 1) + BitLen(x.mag[Len(x.mag)])
Int_abs(x) == MkInt(FALSE, x.mag)
\* x - 1
Int_sub_one(x) ==
    IF x.sign = "Plus" THEN MkInt(FALSE, MagSub1(x.mag))
    ELSE MkInt(TRUE, MagAdd1(x.mag))
\* x & y, for the operands of line 318 (neither is negative)
Int_bitand(x, y) == MkInt(FALSE, MagAnd(x.mag, y.mag))
SignRank(s) == IF s = "Minus" THEN 0 ELSE IF s = "NoSign" THEN 1 ELSE 2
\* Ord::cmp of two BigInt
Int_cmp(x, y) ==
    IF SignRank(x.sign) < SignRank(y.sign) THEN "Less"
    ELSE IF SignRank(x.sign) > SignRank(y.sign) THEN "Greater"
    ELSE IF x.sign = "NoSign" THEN "Equal"
    ELSE IF x.sign = "Plus" THEN MagCmp(x.mag, y.mag)
    ELSE MagCmp(y.mag, x.mag)

(***************************************************************************)
(* utils::bitsize and utils::check_overflow.                               *)
(***************************************************************************)
\* a slip in bitsize: the power-of-two case of negative values is forgotten
bitsize_NoPow2Case(x) ==
    IF Int_is_zero(x) \/ x = Int_minus_one THEN 1
    ELSE Int_bits(x) + 1

\* a slip in bitsize: the sign bit of positive values is forgotten
bitsize_NoSignBit(x) ==
    IF Int_is_zero(x) \/ x = Int_minus_one THEN 1
    ELSE LET res == Int_bits(x)
         IN  IF Int_is_positive(x) THEN res
             ELSE LET modpow2 == Int_bitand(Int_abs(x), Int_sub_one(Int_abs(x)))
                  IN  IF Int_is_zero(modpow2) THEN res ELSE res + 1

bitsize(x) ==
    IF Int_is_zero(x) \/ x = Int_minus_one THEN 1
    ELSE LET res == Int_bits(x)
         IN  IF Int_is_positive(x) THEN res + 1
             ELSE LET modpow2 == Int_bitand(Int_abs(x), Int_sub_one(Int_abs(x)))
                  IN  IF Int_is_zero(modpow2) THEN res ELSE res + 1

\* a slip in check_overflow: the limit is one bit too large
check_overflow_OffByOne(x) == bitsize(x) <= 258

\* a slip in check_overflow: the limit is one bit too small
check_overflow_Strict(x) == bitsize(x) < 257

check_overflow(x) == bitsize(x) < 258

(***************************************************************************)
(* IntegerData: the constructors, withdraw and replace.                    *)
(***************************************************************************)
IntegerValue_NaN == [tag |-> "NaN"]
IntegerValue_Value(x) == [tag |-> "Value", int |-> x]

zero == [value |-> IntegerValue_Value(Int_zero)]
new == zero
one == [value |-> IntegerValue_Value(Int_one)]
minus_one == [value |-> IntegerValue_Value(Int_minus_one)]
nan == [value |-> IntegerValue_NaN]

is_nan(self) == self.value = IntegerValue_NaN

\* Result values: Ok(v), Err(e), and the panic that ends the program
Ok(v) == [status |-> "Ok", value |-> v]
Err(e) == [status |-> "Err", error |-> e]
Panic == [status |-> "panic"]
Unit == "()"

\* a slip in withdraw: the value is copied out and the slot is left as it was
withdraw_KeepsSlot(self) == [self |-> self, ret |-> self]

\* mem::replace(self, IntegerData::new()): the new slot content and the value returned
withdraw(self) == [self |-> new, ret |-> self]

\* mem::replace(self, new_value), the old value dropped
replace(self, new_value) == [self |-> new_value]

(***************************************************************************)
(* behavior::OperationBehavior (on_nan_parameter!, on_integer_overflow!)   *)
(* and IntegerData::from, whose code is in other files of the crate.       *)
(***************************************************************************)
Policies == {"Checked", "Quiet"}
on_nan_parameter(T) == IF T = "Checked" THEN Err("NaNOperand") ELSE Ok(Unit)
on_integer_overflow(T) == IF T = "Checked" THEN Err("IntegerOverflow") ELSE Ok(Unit)

IntegerData_from(x) ==
    IF check_overflow(x) THEN Ok([value |-> IntegerValue_Value(x)])
    ELSE Err("IntegerOverflow")

(***************************************************************************)
(* IntegerData::cmp.                                                       *)
(***************************************************************************)
\* a slip in cmp: the operands are compared the wrong way round
cmp_Swapped(T, self, other) ==
    IF is_nan(self) \/ is_nan(other)
    THEN IF on_nan_parameter(T).status = "Err" THEN on_nan_parameter(T)
         ELSE Ok([some |-> FALSE])
    ELSE Ok([some |-> TRUE, ordering |-> Int_cmp(other.value.int, self.value.int)])

\* IntegerValue::unwrap panics on NaN
cmp(T, self, other) ==
    IF is_nan(self) \/ is_nan(other)
    THEN IF on_nan_parameter(T).status = "Err" THEN on_nan_parameter(T)
         ELSE Ok([some |-> FALSE])
    ELSE IF self.value.tag = "Value" /\ other.value.tag = "Value"
         THEN Ok([some |-> TRUE, ordering |-> Int_cmp(self.value.int, other.value.int)])
         ELSE Panic

(***************************************************************************)
(* The operation framework.                                                *)
(***************************************************************************)
construct_single_nan == nan
construct_double_nan == <<construct_single_nan, construct_single_nan>>

\* a slip in process_single_result: the overflow check is skipped
process_single_result_Unchecked(T, result, nan_constructor) ==
    Ok([value |-> IntegerValue_Value(result)])

process_single_result(T, result, nan_constructor) ==
    LET r == IntegerData_from(result)
    IN  IF r.status = "Ok" THEN r
        ELSE IF on_integer_overflow(T).status = "Err" THEN on_integer_overflow(T)
        ELSE Ok(nan_constructor)

\* IntegerData::from(r2).unwrap() panics when r2 is refused
process_double_result(T, result, nan_constructor) ==
    LET r1 == IntegerData_from(result[1])
        r2 == IntegerData_from(result[2])
    IN  IF r1.status = "Ok"
        THEN IF r2.status = "Ok" THEN Ok(<<r1.value, r2.value>>) ELSE Panic
        ELSE IF on_integer_overflow(T).status = "Err" THEN on_integer_overflow(T)
        ELSE Ok(nan_constructor)

\* the result_processor closure of a call site: one of the two post-processors
ResultProcessors == {"process_single_result", "process_double_result"}
result_processor_call(result_processor, T, result, nan_constructor) ==
    IF result_processor = "process_single_result"
    THEN process_single_result(T, result, nan_constructor)
    ELSE process_double_result(T, result, nan_constructor)

\* the NaN arm of extract_value!: what the enclosing function returns
extract_value_nan(T, nan_constructor) ==
    IF on_nan_parameter(T).status = "Err" THEN on_nan_parameter(T)
    ELSE Ok(nan_constructor)

NoClosureRan == [compute |-> FALSE, processor |-> FALSE]
BothClosuresRan == [compute |-> TRUE, processor |-> TRUE]

\* result is what callback(lhs) returns
unary_op(T, lhs, result, nan_constructor, result_processor) ==
    IF lhs.value.tag = "NaN"
    THEN [ret |-> extract_value_nan(T, nan_constructor), trace |-> NoClosureRan]
    ELSE [ret |-> result_processor_call(result_processor, T, result, nan_constructor),
          trace |-> BothClosuresRan]

\* a slip in binary_op: rhs is not checked for NaN
binary_op_RhsUnchecked(T, lhs, rhs, result, nan_constructor, result_processor) ==
    IF lhs.value.tag = "NaN"
    THEN [ret |-> extract_value_nan(T, nan_constructor), trace |-> NoClosureRan]
    ELSE [ret |-> result_processor_call(result_processor, T, result, nan_constructor),
          trace |-> BothClosuresRan]

\* result is what callback(lhs, rhs) returns
binary_op(T, lhs, rhs, result, nan_constructor, result_processor) ==
    IF lhs.value.tag = "NaN"
    THEN [ret |-> extract_value_nan(T, nan_constructor), trace |-> NoClosureRan]
    ELSE IF rhs.value.tag = "NaN"
    THEN [ret |-> extract_value_nan(T, nan_constructor), trace |-> NoClosureRan]
    ELSE [ret |-> result_processor_call(result_processor, T, result, nan_constructor),
          trace |-> BothClosuresRan]

(***************************************************************************)
(* utils::twos_complement on a buffer of u32 digits. A u32 is the record   *)
(* of its two 16-bit halves [lo, hi].                                      *)
(***************************************************************************)
u32_not(d) == [lo |-> Base - 1 - d.lo, hi |-> Base - 1 - d.hi]
u32_is_zero(d) == d.lo = 0 /\ d.hi = 0
u32_wrapping_add_one(d) ==
    IF d.lo < Base - 1 THEN [lo |-> d.lo + 1, hi |-> d.hi]
    ELSE [lo |-> 0, hi |-> (d.hi + 1) % Base]

\* a slip in twos_complement: the carry is not propagated past the first digit
RECURSIVE twos_complement_NoCarry(_, _, _)
twos_complement_NoCarry(ds, i, c) ==
    IF i > Len(ds) THEN [digits |-> ds, carry |-> c]
    ELSE LET n == u32_not(ds[i])
             d == IF c THEN u32_wrapping_add_one(n) ELSE n
         IN  twos_complement_NoCarry([ds EXCEPT ![i] = d], i + 1, FALSE)

\* the loop of twos_complement from digit i on, with the carry c
RECURSIVE twos_complement_loop(_, _, _)
twos_complement_loop(ds, i, c) ==
    IF i > Len(ds) THEN [digits |-> ds, carry |-> c]
    ELSE LET n == u32_not(ds[i])
             d == IF c THEN u32_wrapping_add_one(n) ELSE n
         IN  twos_complement_loop([ds EXCEPT ![i] = d], i + 1,
                                  IF c THEN u32_is_zero(d) ELSE c)

twos_complement(ds) == twos_complement_loop(ds, 1, TRUE)

(***************************************************************************)
(* The inputs of the model.                                                *)
(***************************************************************************)
MkMags(m) == {MkInt(FALSE, m), MkInt(TRUE, m)}

\* 2^256 - 1 and -2^256 are the largest and the smallest value of 257 bits;
\* 2^256 and -(2^256 + 1) are the first values beyond them
BoundaryRaw ==
    { MkInt(FALSE, MagOnes(256)), MkInt(FALSE, MagPow2(256)),
      MkInt(TRUE, MagPow2(256)), MkInt(TRUE, MagAdd1(MagPow2(256))) }

\* what a callback may return: one integer, or a pair of them
RawInts == {IntOf(0 - 1), IntOf(0), IntOf(1)} \cup BoundaryRaw
RawPairs == RawInts \X RawInts

\* 2^k, 2^k + 1 and 2^(k+1) - 1 with either sign, for k = 254, 255, 256
BoundaryInts ==
    UNION { MkMags(MagPow2(k)) \cup MkMags(MagAdd1(MagPow2(k))) \cup MkMags(MagOnes(k + 1))
            : k \in {254, 255, 256} }

\* what the bit-width primitives are applied to
TestInts == {IntOf(n) : n \in (0 - BitsRange)..BitsRange} \cup BoundaryInts

\* the u32 digits 0, 1, 2^32 - 1, 2^32 - 2 and 2^31
TestWords ==
    { [lo |-> 0, hi |-> 0], [lo |-> 1, hi |-> 0], [lo |-> Base - 1, hi |-> Base - 1],
      [lo |-> Base - 2, hi |-> Base - 1], [lo |-> 0, hi |-> 2^15] }
RECURSIVE Buffers(_)
Buffers(n) ==
    IF n = 0 THEN {<<>>}
    ELSE Buffers(n - 1) \cup {Append(b, w) : b \in Buffers(n - 1), w \in TestWords}

Slots == 1..NSlots

(***************************************************************************)
(* The state machine of a caller that owns the slots. A call of cmp,       *)
(* unary_op or binary_op is made once the caller has stored or dropped     *)
(* what the previous call returned.                                        *)
(***************************************************************************)
IdleBits == /\ value = Int_zero /\ out = [fn |-> "none"]
IdleDigits == /\ digits = <<>> /\ digits0 = <<>> /\ carry = FALSE /\ applied = 0
IdleSlots ==
    /\ slot = [i \in Slots |-> new]
    /\ call = [op |-> "none"]
    /\ ret = Ok(Unit)
    /\ trace = NoClosureRan

Init == IdleSlots /\ IdleBits /\ IdleDigits

\* a panic ends the program
Running == ret.status # "panic"
Idle == call.op = "none"

nan_constructor_of(result_processor) ==
    IF result_processor = "process_single_result"
    THEN construct_single_nan ELSE construct_double_nan

\* the raw results a callback may hand to the given post-processor
RawResults(result_processor) ==
    IF result_processor = "process_single_result" THEN RawInts ELSE RawPairs

\* the values the last call returned
Returned ==
    IF ret.status # "Ok" THEN {}
    ELSE IF call.op = "withdraw" THEN {ret.value}
    ELSE IF call.op \in {"unary_op", "binary_op"}
    THEN IF call.result_processor = "process_single_result" THEN {ret.value}
         ELSE {ret.value[1], ret.value[2]}
    ELSE {}
\* the values the caller can store: a returned one, else a freshly constructed one
\* or a clone of a slot
Held == IF Idle THEN {zero, one, minus_one, nan} \cup {slot[i] : i \in Slots} ELSE Returned

Withdraw(i) ==
    /\ Running
    /\ LET w == withdraw(slot[i])
       IN  /\ slot' = [slot EXCEPT ![i] = w.self]
           /\ ret' = Ok(w.ret)
    /\ call' = [op |-> "withdraw", slot |-> i]
    /\ trace' = NoClosureRan
    /\ UNCHANGED <<value, out, digits, digits0, carry, applied>>

Replace(i, new_value) ==
    /\ Running
    /\ slot' = [slot EXCEPT ![i] = replace(slot[i], new_value).self]
    /\ ret' = Ok(Unit)
    /\ call' = [op |-> "replace", slot |-> i, new_value |-> new_value]
    /\ trace' = NoClosureRan
    /\ UNCHANGED <<value, out, digits, digits0, carry, applied>>

\* the caller drops what the last call returned
Drop ==
    /\ Running
    /\ ~Idle
    /\ call' = [op |-> "none"]
    /\ ret' = Ok(Unit)
    /\ trace' = NoClosureRan
    /\ UNCHANGED <<slot, value, out, digits, digits0, carry, applied>>

Cmp(T, i, j) ==
    /\ Running
    /\ Idle
    /\ ret' = cmp(T, slot[i], slot[j])
    /\ call' = [op |-> "cmp", T |-> T, lhs |-> slot[i], rhs |-> slot[j]]
    /\ trace' = NoClosureRan
    /\ UNCHANGED <<slot, value, out, digits, digits0, carry, applied>>

UnaryOp(T, i, result_processor, result) ==
    /\ Running
    /\ Idle
    /\ LET r == unary_op(T, slot[i], result, nan_constructor_of(result_processor),
                         result_processor)
       IN  ret' = r.ret /\ trace' = r.trace
    /\ call' = [op |-> "unary_op", T |-> T, lhs |-> slot[i], result |-> result,
                result_processor |-> result_processor]
    /\ UNCHANGED <<slot, value, out, digits, digits0, carry, applied>>

BinaryOp(T, i, j, result_processor, result) ==
    /\ Running
    /\ Idle
    /\ LET r == binary_op(T, slot[i], slot[j], result,
                          nan_constructor_of(result_processor), result_processor)
       IN  ret' = r.ret /\ trace' = r.trace
    /\ call' = [op |-> "binary_op", T |-> T, lhs |-> slot[i], rhs |-> slot[j],
                result |-> result, result_processor |-> result_processor]
    /\ UNCHANGED <<slot, value, out, digits, digits0, carry, applied>>

Next ==
    \/ \E i \in Slots : Withdraw(i)
    \/ \E i \in Slots : \E v \in Held : Replace(i, v)
    \/ Drop
    \/ \E T \in Policies : \E i, j \in Slots : Cmp(T, i, j)
    \/ \E T \in Policies : \E i \in Slots : \E p \in ResultProcessors :
          \E r \in RawResults(p) : UnaryOp(T, i, p, r)
    \/ \E T \in Policies : \E i, j \in Slots : \E p \in ResultProcessors :
          \E r \in RawResults(p) : BinaryOp(T, i, j, p, r)

Spec == Init /\ [][Next]_vars

(***************************************************************************)
(* The bit-width primitives applied to one raw integer.                    *)
(***************************************************************************)
InitBits ==
    /\ IdleSlots /\ IdleDigits
    /\ value \in TestInts
    /\ out = [fn |-> "none"]

Bitsize ==
    /\ out' = [fn |-> "bitsize", bits |-> bitsize(value)]
    /\ UNCHANGED <<slot, call, ret, trace, value, digits, digits0, carry, applied>>

CheckOverflow ==
    /\ out' = [fn |-> "check_overflow", fits |-> check_overflow(value)]
    /\ UNCHANGED <<slot, call, ret, trace, value, digits, digits0, carry, applied>>

NextBits == Bitsize \/ CheckOverflow

SpecBits == InitBits /\ [][NextBits]_vars

(***************************************************************************)
(* twos_complement applied to one digit buffer.                            *)
(***************************************************************************)
InitDigits ==
    /\ IdleSlots /\ IdleBits
    /\ digits \in Buffers(MaxDigits)
    /\ digits0 = digits
    /\ carry = FALSE
    /\ applied = 0

TwosComplement ==
    /\ applied < MaxApply
    /\ LET r == twos_complement(digits)
       IN  digits' = r.digits /\ carry' = r.carry
    /\ applied' = applied + 1
    /\ UNCHANGED <<slot, call, ret, trace, value, out, digits0>>

NextDigits == TwosComplement

SpecDigits == InitDigits /\ [][NextDigits]_vars

(***************************************************************************)
(* Notions the properties are stated with.                                 *)
(***************************************************************************)
IsOp == call.op \in {"unary_op", "binary_op"}
OperandIsNaN ==
    \/ is_nan(call.lhs)
    \/ call.op = "binary_op" /\ is_nan(call.rhs)
\* a number of at most 257 bits
IsNumber257(v) == v.value.tag = "Value" /\ bitsize(v.value.int) <= 257
NumberOf(x) == [value |-> IntegerValue_Value(x)]
\* every IntegerData the program holds
Existing ==
    {slot[i] : i \in Slots} \cup Returned
        \cup (IF call.op = "replace" THEN {call.new_value} ELSE {})
        \cup (IF call.op \in {"unary_op", "binary_op", "cmp"} THEN {call.lhs} ELSE {})
        \cup (IF call.op \in {"binary_op", "cmp"} THEN {call.rhs} ELSE {})

Max257 == MkInt(FALSE, MagOnes(256))
Min257 == MkInt(TRUE, MagPow2(256))
\* the numbers a slot can hold in this model, in ascending order
Ascending == <<Min257, IntOf(0 - 1), IntOf(0), IntOf(1), Max257>>
RankOf(x) == CHOOSE k \in 1..Len(Ascending) : Ascending[k] = x
SignedOrdering(x, y) ==
    IF RankOf(x) < RankOf(y) THEN "Less"
    ELSE IF RankOf(x) > RankOf(y) THEN "Greater" ELSE "Equal"

\* the value of a small Int as an integer
RECURSIVE MagToNat(_)
MagToNat(m) == IF m = <<>> THEN 0 ELSE m[1] + Base * MagToNat(Tail(m))
ToInteger(x) == IF x.sign = "Minus" THEN 0 - MagToNat(x.mag) ELSE MagToNat(x.mag)
IsSmall(x) == Len(x.mag) <= 1
\* the least n >= 1 with -2^(n-1) <= x <= 2^(n-1) - 1
FitsWidth(n, w) == 0 - 2^(w - 1) <= n /\ n <= 2^(w - 1) - 1
MinWidth(n) == CHOOSE w \in 1..30 : FitsWidth(n, w) /\ \A u \in 1..(w - 1) : ~FitsWidth(n, u)
NotPowerOfTwo(x) == ~Int_is_zero(Int_bitand(Int_abs(x), Int_sub_one(Int_abs(x))))
AllZero(ds) == \A k \in 1..Len(ds) : u32_is_zero(ds[k])

(***************************************************************************)
(* The properties.                                                         *)
(***************************************************************************)
\* C1: every IntegerData that exists (in a slot, returned by a call, or passed to
\* one) is NaN or a number whose bitsize is at most 257.
C1_WidthInvariant == \A v \in Existing : is_nan(v) \/ IsNumber257(v)

\* C1 witness: a slot holds 2^256 - 1 that an operation returned, and a Quiet
\* operation whose raw result is 2^256 has just returned NaN.
C1_Witness ==
    /\ \E i \in Slots : slot[i] = NumberOf(Max257)
    /\ IsOp /\ call.T = "Quiet" /\ call.result_processor = "process_single_result"
    /\ call.result = MkInt(FALSE, MagPow2(256))
    /\ ret = Ok(nan)

\* C2: binary_op with process_single_result on two numbers: a raw result of more
\* than 257 bits fails with IntegerOverflow under Checked and gives Ok(NaN) under
\* Quiet; a raw result that fits gives Ok of that number under both.
C2_BinarySingleResult ==
    (/\ call.op = "binary_op" /\ call.result_processor = "process_single_result"
     /\ ~is_nan(call.lhs) /\ ~is_nan(call.rhs))
    => IF bitsize(call.result) > 257
       THEN /\ call.T = "Checked" => ret = Err("IntegerOverflow")
            /\ call.T = "Quiet" => ret = Ok(nan)
       ELSE ret = Ok(NumberOf(call.result))

\* C2 witness: a Checked binary operation on two numbers whose raw result is
\* -(2^256 + 1) has failed with IntegerOverflow.
C2_Witness ==
    /\ call.op = "binary_op" /\ call.result_processor = "process_single_result"
    /\ call.T = "Checked" /\ ~is_nan(call.lhs) /\ ~is_nan(call.rhs)
    /\ call.result = MkInt(TRUE, MagAdd1(MagPow2(256)))
    /\ ret = Err("IntegerOverflow")

\* C3: when an operand of unary_op or binary_op is NaN, neither the callback nor the
\* result processor runs; Quiet returns Ok(nan_constructor()) and Checked fails with
\* NaNOperand. So a Quiet single-result operation on a NaN operand returns NaN.
C3_NaNShortCircuit ==
    (IsOp /\ OperandIsNaN)
    => /\ trace = NoClosureRan
       /\ call.T = "Quiet" => ret = Ok(nan_constructor_of(call.result_processor))
       /\ call.T = "Checked" => ret = Err("NaNOperand")
       /\ (call.T = "Quiet" /\ call.result_processor = "process_single_result")
             => is_nan(ret.value)

\* C3 witness: a Quiet binary operation whose lhs is a number and whose rhs is NaN
\* returned NaN although the raw result offered was a number that fits.
C3_Witness ==
    /\ call.op = "binary_op" /\ call.T = "Quiet"
    /\ call.result_processor = "process_single_result"
    /\ ~is_nan(call.lhs) /\ is_nan(call.rhs)
    /\ call.result = IntOf(1)
    /\ ret = Ok(nan) /\ trace = NoClosureRan

\* C4 (as claimed): under Quiet every unary_op/binary_op returns Ok: NaN or a number
\* of at most 257 bits for a single result, two such numbers or a pair of NaN for a
\* double result; and when r1 or r2 of a raw pair exceeds 257 bits,
\* process_double_result returns Ok of a pair of NaN and never aborts.
C4_QuietNeverFails ==
    (IsOp /\ call.T = "Quiet")
    => /\ ret.status = "Ok"
       /\ call.result_processor = "process_single_result"
             => (is_nan(ret.value) \/ IsNumber257(ret.value))
       /\ call.result_processor = "process_double_result"
             => \/ IsNumber257(ret.value[1]) /\ IsNumber257(ret.value[2])
                \/ ret.value = <<nan, nan>>
       /\ (/\ call.result_processor = "process_double_result"
           /\ ~OperandIsNaN
           /\ (bitsize(call.result[1]) > 257 \/ bitsize(call.result[2]) > 257))
             => ret = Ok(<<nan, nan>>)

\* C5: cmp with a NaN operand fails with NaNOperand under Checked and returns
\* Ok(None) under Quiet; on two numbers it returns Ok(Some(o)), o the signed order
\* of the two, under both; one() against zero() is Greater; cmp never aborts.
C5_Cmp ==
    call.op = "cmp"
    => /\ ret.status # "panic"
       /\ (is_nan(call.lhs) \/ is_nan(call.rhs))
             => /\ call.T = "Checked" => ret = Err("NaNOperand")
                /\ call.T = "Quiet" => ret = Ok([some |-> FALSE])
       /\ (~is_nan(call.lhs) /\ ~is_nan(call.rhs))
             => ret = Ok([some |-> TRUE,
                          ordering |-> SignedOrdering(call.lhs.value.int, call.rhs.value.int)])
       /\ (call.lhs = one /\ call.rhs = zero)
             => ret = Ok([some |-> TRUE, ordering |-> "Greater"])

\* C5 witness: Checked cmp of one() with zero() returned Ok(Some(Greater)).
C5_Witness ==
    /\ call.op = "cmp" /\ call.T = "Checked"
    /\ call.lhs = one /\ call.rhs = zero
    /\ ret = Ok([some |-> TRUE, ordering |-> "Greater"])

\* C6: for every small integer x, bitsize(x) is the minimum two's-complement width
\* of x: the least n >= 1 with -2^(n-1) <= x <= 2^(n-1) - 1.
C6_BitsizeIsMinWidth ==
    (out.fn = "bitsize" /\ IsSmall(value)) => out.bits = MinWidth(ToInteger(value))

\* C6 witness: bitsize was applied to -16, a negative power of two, and gave 5.
C6_Witness == out.fn = "bitsize" /\ value = IntOf(0 - 16) /\ out.bits = 5

\* C7 (as claimed): bitsize is 1 for 0, 1 for -1, 2 for 1, 1 for -2, 3 for 3 and
\* 3 for -3.
C7_Original ==
    out.fn = "bitsize"
    => /\ value = IntOf(0) => out.bits = 1
       /\ value = IntOf(0 - 1) => out.bits = 1
       /\ value = IntOf(1) => out.bits = 2
       /\ value = IntOf(0 - 2) => out.bits = 1
       /\ value = IntOf(3) => out.bits = 3
       /\ value = IntOf(0 - 3) => out.bits = 3

\* C7 (amended): bitsize is 1 for 0, 1 for -1, 2 for 1, 2 for -2, 3 for 3 and
\* 3 for -3.
C7_BitsizeTable ==
    out.fn = "bitsize"
    => /\ value = IntOf(0) => out.bits = 1
       /\ value = IntOf(0 - 1) => out.bits = 1
       /\ value = IntOf(1) => out.bits = 2
       /\ value = IntOf(0 - 2) => out.bits = 2
       /\ value = IntOf(3) => out.bits = 3
       /\ value = IntOf(0 - 3) => out.bits = 3

\* C7 witness: bitsize was applied to -2 and gave 2.
C7_Witness == out.fn = "bitsize" /\ value = IntOf(0 - 2) /\ out.bits = 2

\* C8 (as claimed): check_overflow(x) is true exactly when bitsize(x) < 258; a
\* positive value, not a power of two, whose magnitude has exactly 256 bits does
\* not fit; a positive value whose magnitude has exactly 255 bits fits.
C8_Original ==
    out.fn = "check_overflow"
    => /\ out.fits = (bitsize(value) < 258)
       /\ (Int_is_positive(value) /\ NotPowerOfTwo(value) /\ Int_bits(value) = 256)
             => out.fits = FALSE
       /\ (Int_is_positive(value) /\ Int_bits(value) = 255) => out.fits = TRUE

\* C8 (amended): check_overflow(x) is true exactly when bitsize(x) < 258; a
\* positive value, not a power of two, whose magnitude has exactly 256 bits fits
\* (overflow starts at a magnitude of 257 bits); one of exactly 255 bits fits.
C8_OverflowBoundary ==
    out.fn = "check_overflow"
    => /\ out.fits = (bitsize(value) < 258)
       /\ (Int_is_positive(value) /\ NotPowerOfTwo(value) /\ Int_bits(value) = 256)
             => out.fits = TRUE
       /\ (Int_is_positive(value) /\ Int_bits(value) = 257) => out.fits = FALSE
       /\ (Int_is_positive(value) /\ Int_bits(value) = 255) => out.fits = TRUE

\* C8 witness: check_overflow was applied to 2^256 - 1 and reported that it fits.
C8_Witness == out.fn = "check_overflow" /\ value = Max257 /\ out.fits = TRUE

\* C9: a withdraw returns what the slot held just before it and leaves zero() in the
\* slot, the other slots untouched; a replace leaves exactly the given value in the
\* slot; a withdraw right after a withdraw of the same slot returns zero().
C9_WithdrawReplace ==
    [][ /\ call'.op = "withdraw"
           => /\ ret' = Ok(slot[call'.slot])
              /\ slot' = [slot EXCEPT ![call'.slot] = zero]
        /\ call'.op = "replace"
           => slot' = [slot EXCEPT ![call'.slot] = call'.new_value]
        /\ (call.op = "withdraw" /\ call'.op = "withdraw" /\ call'.slot = call.slot)
           => ret' = Ok(zero)
      ]_vars

\* C9 witness: a withdraw returned the NaN the slot held and left zero() in it.
C9_Witness ==
    /\ call.op = "withdraw"
    /\ ret = Ok(nan)
    /\ slot[call.slot] = zero

\* C10: twos_complement applied twice to a digit buffer restores it; applied once
\* to an all-zero buffer it leaves the buffer as it was, the carry still set when
\* the last digit is done.
C10_TwosComplementSelfInverse ==
    /\ applied % 2 = 0 => digits = digits0
    /\ (applied = 1 /\ AllZero(digits0)) => (digits = digits0 /\ carry = TRUE)

\* C10 witness: a buffer of the longest length whose first digit is zero and whose
\* last digit is not has been negated twice.
C10_Witness ==
    /\ applied = 2
    /\ Len(digits0) = MaxDigits
    /\ u32_is_zero(digits0[1])
    /\ ~u32_is_zero(digits0[Len(digits0)])
    /\ digits = digits0

====
